---- MODULE Spec2Model ----
(***************************************************************************)
(* Undo/redo history of HomeComponent (src/src/app/home/home.component.ts). *)
(*                                                                         *)
(* The component keeps an array `history` of form-value snapshots and an   *)
(* integer `currentIndex`.  Every valueChanges event of the reactive form  *)
(* calls saveState(); undo()/redo() move the index and write the snapshot  *)
(* back into the form with emitEvent: false.                               *)
(*                                                                         *)
(* JavaScript arrays are 0-based, TLA+ sequences 1-based: the entry the    *)
(* code calls history[i] is history[i + 1] here (operator At).             *)
(***************************************************************************)
EXTENDS Integers, Sequences, FiniteSets, TLC

\* ---------------------------------------------------------------- bounds
\* Longest history the model lets saveState build.
MaxHistory == 3
\* Largest number of toastr.success notifications the model counts.
MaxToasts == 5

\* ---------------------------------------------------------------- inputs
\* Values a user types into the 'name' control.
Names == {"", "A", "AB", "AX"}
\* Values a user types into the 'email' control.
Emails == {"", "a@b.c"}
\* '' (nothing selected) and one entry of `countries`.
Countries == {"", "Egypt"}

\* The value of the FormGroup: one value per control.
undoRedoFormValue == [name : Names, email : Emails, country : Countries]

\* The value of the group built in ngOnInit: every control is ''.
EmptyForm == [name |-> "", email |-> "", country |-> ""]

\* ---------------------------------------------------------------- state
VARIABLES
    myForm,        \* << >> while `myForm` is unassigned, else <<value of the group>>
    history,       \* the snapshots, oldest first
    currentIndex,  \* 0-based index into history, -1 before the first saveState
    toasts,        \* number of toastr.success calls made so far
    call,          \* the most recent call: its name, the state before it, its result
    prevCall,      \* the call before that one
    scenario,      \* how many events of Script the run has followed, -1 once it left it
    moves          \* number of undo()/redo() calls so far that changed currentIndex

vars == <<myForm, history, currentIndex, toasts, call, prevCall, scenario,
          moves>>

\* The component's fields (and the notifications shown) as one value.
State == [history |-> history, currentIndex |-> currentIndex,
          myForm |-> myForm, toasts |-> toasts]

\* history[i] of the code (0-based); only read for 0 <= i < history.length.
At(h, i) == h[i + 1]

\* Is h[i] an element of the code's array (not `undefined`)?
InRange(h, i) == 0 <= i /\ i <= Len(h) - 1

\* The outcome of a method: the state it leaves and whether it threw.
Returned(s) == [state |-> s, threw |-> FALSE]
Threw(s) == [state |-> s, threw |-> TRUE]

\* ------------------------------------------------------- pure operations
\* Array.prototype.splice(start) with one argument: removes every element
\* from `start` on; a negative start counts from the end.  The value is
\* what is left in the array.
splice(h, start) ==
    LET from == IF start < 0
                THEN (IF Len(h) + start < 0 THEN 0 ELSE Len(h) + start)
                ELSE (IF start > Len(h) THEN Len(h) ELSE start)
    IN  SubSeq(h, 1, from)

\* Variant: the lower boundary test admits index 0.
canUndoFromZero(s) == s.currentIndex >= 0

canUndo(s) == s.currentIndex > 0

\* Variant: the upper boundary test admits the last index.
canRedoPastEnd(s) == s.currentIndex < Len(s.history)

canRedo(s) == s.currentIndex < Len(s.history) - 1

\* Variant: the entries after the index are not removed before the push.
saveStateNoSplice(s) ==
    IF s.myForm = << >>
    THEN Threw(s)
    ELSE LET pushed == Append(s.history, s.myForm[1])
         IN  Returned([s EXCEPT !.history = pushed,
                                !.currentIndex = Len(pushed) - 1])

\* Variant: the index is set to history.length, not history.length - 1.
saveStateIndexIsLength(s) ==
    IF s.myForm = << >>
    THEN Threw(s)
    ELSE LET kept == IF s.currentIndex < Len(s.history) - 1
                     THEN splice(s.history, s.currentIndex + 1)
                     ELSE s.history
             pushed == Append(kept, s.myForm[1])
         IN  Returned([s EXCEPT !.history = pushed,
                                !.currentIndex = Len(pushed)])

\* Variant: splice(this.currentIndex), which also removes the current entry.
saveStateSpliceAtIndex(s) ==
    IF s.myForm = << >>
    THEN Threw(s)
    ELSE LET kept == IF s.currentIndex < Len(s.history) - 1
                     THEN splice(s.history, s.currentIndex)
                     ELSE s.history
             pushed == Append(kept, s.myForm[1])
         IN  Returned([s EXCEPT !.history = pushed,
                                !.currentIndex = Len(pushed) - 1])

\* Variant: a form value equal to the current snapshot is not pushed again.
saveStateDedup(s) ==
    IF s.myForm = << >>
    THEN Threw(s)
    ELSE IF /\ InRange(s.history, s.currentIndex)
            /\ At(s.history, s.currentIndex) = s.myForm[1]
         THEN Returned(s)
         ELSE LET kept == IF s.currentIndex < Len(s.history) - 1
                          THEN splice(s.history, s.currentIndex + 1)
                          ELSE s.history
                  pushed == Append(kept, s.myForm[1])
              IN  Returned([s EXCEPT !.history = pushed,
                                     !.currentIndex = Len(pushed) - 1])

\* saveState() in state s; throws on reading `.value` of an unassigned form.
saveState(s) ==
    IF s.myForm = << >>
    THEN Threw(s)
    ELSE LET currentState == s.myForm[1]
             kept == IF s.currentIndex < Len(s.history) - 1
                     THEN splice(s.history, s.currentIndex + 1)
                     ELSE s.history
             pushed == Append(kept, currentState)
         IN  Returned([s EXCEPT !.history = pushed,
                                !.currentIndex = Len(pushed) - 1])

\* Variant: setValue without emitEvent: false, so the write emits
\* valueChanges and the subscriber runs saveState() before the toast.
setValueEmitting(s) ==
    IF s.myForm = << >> \/ ~InRange(s.history, s.currentIndex)
    THEN Threw(s)
    ELSE LET saved == saveState([s EXCEPT
                          !.myForm = <<At(s.history, s.currentIndex)>>])
         IN  Returned([saved.state EXCEPT !.toasts = @ + 1])

\* Variant: the form is written but toastr.success is not called.
setValueNoToast(s) ==
    IF s.myForm = << >> \/ ~InRange(s.history, s.currentIndex)
    THEN Threw(s)
    ELSE Returned([s EXCEPT !.myForm = <<At(s.history, s.currentIndex)>>])

\* this.myForm.setValue(this.history[this.currentIndex], {emitEvent: false})
\* followed by toastr.success(...).  setValue throws (before the toast) when
\* the form is unassigned or the entry is undefined.  Otherwise every
\* control takes the snapshot's value, the group's value is recomputed as a
\* new object, and with emitEvent: false no valueChanges event is emitted,
\* so the subscriber (saveState) does not run.
setValueAndToast(s) ==
    IF s.myForm = << >> \/ ~InRange(s.history, s.currentIndex)
    THEN Threw(s)
    ELSE Returned([s EXCEPT !.myForm = <<At(s.history, s.currentIndex)>>,
                            !.toasts = @ + 1])

\* Variant: the form is written from history[currentIndex] before the
\* index is decremented.
undoWriteBeforeDecrement(s) ==
    IF canUndo(s)
    THEN LET r == setValueAndToast(s)
         IN  [r EXCEPT !.state.currentIndex = @ - 1]
    ELSE Returned(s)

\* Variant: undo() without the canUndo() test.
undoUnguarded(s) == setValueAndToast([s EXCEPT !.currentIndex = @ - 1])

undo(s) ==
    IF canUndo(s)
    THEN setValueAndToast([s EXCEPT !.currentIndex = @ - 1])
    ELSE Returned(s)

\* Variant: the form is written from history[currentIndex] before the
\* index is incremented.
redoWriteBeforeIncrement(s) ==
    IF canRedo(s)
    THEN LET r == setValueAndToast(s)
         IN  [r EXCEPT !.state.currentIndex = @ + 1]
    ELSE Returned(s)

redo(s) ==
    IF canRedo(s)
    THEN setValueAndToast([s EXCEPT !.currentIndex = @ + 1])
    ELSE Returned(s)

\* Variant: ngOnInit() without the first saveState().
ngOnInitNoSave(s) == Returned([s EXCEPT !.myForm = <<EmptyForm>>])

\* ngOnInit() in state s: builds the group with three empty controls, saves
\* the first snapshot, then subscribes saveState to valueChanges.
ngOnInit(s) == saveState([s EXCEPT !.myForm = <<EmptyForm>>])

\* A user edit of one control of the group: the control takes the value v
\* (which may be the value it already has), the group recomputes its value
\* as a new object and emits valueChanges, and the subscriber runs
\* saveState().
valueChanges(s, field, v) ==
    saveState([s EXCEPT !.myForm = <<[s.myForm[1] EXCEPT ![field] = v]>>])

\* One click on the Undo or the Redo button in state s.
Click(s, op) == IF op = "undo" THEN undo(s) ELSE redo(s)

\* The clicks ops made one after the other from state s, with no edit in
\* between: the state they leave, and whether one of them threw.
RECURSIVE Run(_, _)
Run(s, ops) ==
    IF ops = << >>
    THEN Returned(s)
    ELSE LET r == Click(s, Head(ops))
             rest == Run(r.state, Tail(ops))
         IN  [rest EXCEPT !.threw = @ \/ r.threw]

\* n clicks on the same button.
Repeat(op, n) == [i \in 1..n |-> op]

\* Every sequence of at most n clicks on Undo and Redo.
UndoRedoRuns(n) == UNION {[1..m -> {"undo", "redo"}] : m \in 0..n}

\* ------------------------------------------------------------- call log
\* The events of the walk-through: initialise, type "A", type "AB", undo,
\* type "AX", redo.
Script == << <<"ngOnInit", "", "">>, <<"edit", "name", "A">>,
             <<"edit", "name", "AB">>, <<"undo", "", "">>,
             <<"edit", "name", "AX">>, <<"redo", "", "">> >>

\* The record kept of a call: which method (and, for an edit, which control
\* and value), the state it started from, the boolean it returned (canUndo
\* and canRedo; FALSE otherwise) and whether it threw.
Called(op, field, v, ret, threw) ==
    /\ call' = [op |-> op, field |-> field, value |-> v, pre |-> State,
                 ret |-> ret, threw |-> threw]
    /\ prevCall' = call
    /\ scenario' = IF /\ scenario >= 0
                      /\ scenario < Len(Script)
                      /\ Script[scenario + 1] = <<op, field, v>>
                   THEN scenario + 1
                   ELSE -1

NoCall == [op |-> "none", field |-> "", value |-> "",
           pre |-> [history |-> << >>, currentIndex |-> -1,
                    myForm |-> << >>, toasts |-> 0],
           ret |-> FALSE, threw |-> FALSE]

\* The component's fields take the state a method left.
Becomes(s) ==
    /\ myForm' = s.myForm
    /\ history' = s.history
    /\ currentIndex' = s.currentIndex
    /\ toasts' = s.toasts

\* ---------------------------------------------------------------- Init
\* Field initialisers of the class: history = [], currentIndex = -1,
\* myForm declared but not assigned.
Init ==
    /\ myForm = << >>
    /\ history = << >>
    /\ currentIndex = -1
    /\ toasts = 0
    /\ call = NoCall
    /\ prevCall = NoCall
    /\ scenario = 0
    /\ moves = 0

\* -------------------------------------------------------------- actions
\* The framework calls ngOnInit once per component, before any user event.
NgOnInit ==
    /\ myForm = << >>
    /\ LET r == ngOnInit(State)
       IN  Becomes(r.state) /\ Called("ngOnInit", "", "", FALSE, r.threw)
    /\ UNCHANGED moves

\* A user edit; there is no form to edit before ngOnInit.
Edit(field, v) ==
    /\ myForm # << >>
    /\ currentIndex + 1 < MaxHistory
    /\ LET r == valueChanges(State, field, v)
       IN  Becomes(r.state) /\ Called("edit", field, v, FALSE, r.threw)
    /\ UNCHANGED moves

EditName == \E v \in Names : Edit("name", v)
EditEmail == \E v \in Emails : Edit("email", v)
EditCountry == \E v \in Countries : Edit("country", v)

\* A click on the Undo button.
Undo ==
    /\ canUndo(State) => toasts < MaxToasts
    /\ LET r == undo(State)
       IN  /\ Becomes(r.state)
           /\ Called("undo", "", "", FALSE, r.threw)
           /\ moves' = IF r.state.currentIndex # currentIndex
                       THEN moves + 1
                       ELSE moves

\* A click on the Redo button.
Redo ==
    /\ canRedo(State) => toasts < MaxToasts
    /\ LET r == redo(State)
       IN  /\ Becomes(r.state)
           /\ Called("redo", "", "", FALSE, r.threw)
           /\ moves' = IF r.state.currentIndex # currentIndex
                       THEN moves + 1
                       ELSE moves

\* The template's calls of canUndo() and canRedo().
CanUndo ==
    /\ Called("canUndo", "", "", canUndo(State), FALSE)
    /\ UNCHANGED <<myForm, history, currentIndex, toasts, moves>>

CanRedo ==
    /\ Called("canRedo", "", "", canRedo(State), FALSE)
    /\ UNCHANGED <<myForm, history, currentIndex, toasts, moves>>

Next ==
    \/ NgOnInit
    \/ EditName
    \/ EditEmail
    \/ EditCountry
    \/ Undo
    \/ Redo
    \/ CanUndo
    \/ CanRedo

Spec == Init /\ [][Next]_vars

\* ============================================================ properties
\* The fields the claims compare: history, index and form value.
Fields(s) == [history |-> s.history, currentIndex |-> s.currentIndex,
              myForm |-> s.myForm]

\* The call c was made with the index below the last history index.
BelowLast(c) == c.pre.currentIndex < Len(c.pre.history) - 1

\* The call c was made with the index above 0.
AboveFirst(c) == c.pre.currentIndex > 0

\* The snapshots of the walk-through.
S0 == EmptyForm
S1 == [EmptyForm EXCEPT !.name = "A"]
S2 == [EmptyForm EXCEPT !.name = "AB"]
S3 == [EmptyForm EXCEPT !.name = "AX"]

\* C1: an edit made while the index is below the last history index leaves
\* the old entries 0..index, unchanged and in order, followed by the new
\* form value as the only added entry; the entries after the old index are
\* gone, canRedo() is false, and a redo() called next changes nothing.
C1_EditAfterUndoTruncates ==
    /\ (call.op = "edit" /\ BelowLast(call)) =>
          /\ ~call.threw
          /\ myForm = <<[call.pre.myForm[1] EXCEPT ![call.field] = call.value]>>
          /\ history = SubSeq(call.pre.history, 1, call.pre.currentIndex + 1)
                          \o myForm
          /\ Len(history) = call.pre.currentIndex + 2
          /\ currentIndex >= Len(history) - 1
          /\ ~canRedo(State)
          /\ redo(State) = Returned(State)
    /\ (call.op = "redo" /\ prevCall.op = "edit" /\ BelowLast(prevCall)) =>
          /\ ~call.threw
          /\ State = call.pre

\* C1 witness: an edit made two or more entries below the end, then redo().
C1_Witness ==
    /\ call.op = "redo"
    /\ prevCall.op = "edit"
    /\ prevCall.pre.currentIndex + 2 < Len(prevCall.pre.history)

\* C2: right after every saveState (the one of ngOnInit and the one of every
\* edit, also after undos) history.length = currentIndex + 1.
C2_IndexOnLastAfterSave ==
    call.op \in {"ngOnInit", "edit"} =>
        /\ ~call.threw
        /\ Len(history) = currentIndex + 1

\* C2 witness: an edit made right after an effective undo().
C2_Witness ==
    /\ call.op = "edit"
    /\ BelowLast(call)
    /\ prevCall.op = "undo"
    /\ AboveFirst(prevCall)

\* C3: undo() called where canUndo() holds, immediately followed by redo(),
\* leaves index, history and form value as they were before the undo().
C3_UndoRedoRoundTrip ==
    (prevCall.op = "undo" /\ AboveFirst(prevCall) /\ call.op = "redo") =>
        /\ ~prevCall.threw
        /\ ~call.threw
        /\ Fields(State) = Fields(prevCall.pre)

\* C3 witness: such a pair of calls, made where the two snapshots differ.
C3_Witness ==
    /\ prevCall.op = "undo"
    /\ AboveFirst(prevCall)
    /\ call.op = "redo"
    /\ call.pre.myForm # myForm

\* C4: canUndo() returns false exactly when the index is <= 0, canRedo()
\* returns false exactly when the index is >= history.length - 1, and
\* neither changes index, history or form value.
C4_CanUndoCanRedoBoundaries ==
    /\ call.op = "canUndo" =>
          /\ (call.ret = FALSE) <=> (call.pre.currentIndex <= 0)
          /\ State = call.pre
    /\ call.op = "canRedo" =>
          /\ (call.ret = FALSE) <=>
                (call.pre.currentIndex >= Len(call.pre.history) - 1)
          /\ State = call.pre

\* C4 witness: canUndo() then canRedo(), both returning true.
C4_Witness ==
    /\ prevCall.op = "canUndo" /\ prevCall.ret
    /\ call.op = "canRedo" /\ call.ret

\* C5: -1 <= index <= history.length - 1 always; the index is -1 only while
\* the history is empty; a non-empty history never becomes empty again.
C5_IndexInRange ==
    /\ -1 <= currentIndex
    /\ currentIndex <= Len(history) - 1
    /\ currentIndex = -1 => history = << >>
    /\ history # << >> => InRange(history, currentIndex)
    /\ call.pre.history # << >> => history # << >>

\* C5 witness: an effective undo() that reached index 0 of a longer history.
C5_Witness ==
    /\ call.op = "undo"
    /\ AboveFirst(call)
    /\ currentIndex = 0
    /\ Len(history) >= 3

\* C6: after ngOnInit and before any edit the history holds exactly the
\* empty form value, the index is 0, and canUndo() and canRedo() are false
\* (checked right after ngOnInit and after one further call that is no edit).
C6_SeededWithEmptyForm ==
    (\/ call.op = "ngOnInit"
     \/ (prevCall.op = "ngOnInit" /\ call.op # "edit")) =>
        /\ history = <<[name |-> "", email |-> "", country |-> ""]>>
        /\ myForm = history
        /\ currentIndex = 0
        /\ ~canUndo(State)
        /\ ~canRedo(State)
        /\ call.op = "canUndo" => ~call.ret
        /\ call.op = "canRedo" => ~call.ret

\* C6 witness: ngOnInit, then canRedo() called on the seeded history.
C6_Witness ==
    /\ prevCall.op = "ngOnInit"
    /\ call.op = "canRedo"

\* C7: undo() called with index <= 0 changes neither index, history nor
\* form value, emits no notification and does not throw.
C7_UndoAtLowerBoundary ==
    (call.op = "undo" /\ call.pre.currentIndex <= 0) =>
        /\ ~call.threw
        /\ State = call.pre

\* C7 witness: undo() at index 0 of a history with entries to redo.
C7_Witness ==
    /\ call.op = "undo"
    /\ call.pre.currentIndex = 0
    /\ Len(call.pre.history) >= 2

\* C8: redo() called with index >= history.length - 1 changes neither
\* index, history nor form value, emits no notification and does not throw.
C8_RedoAtUpperBoundary ==
    (call.op = "redo" /\ ~BelowLast(call)) =>
        /\ ~call.threw
        /\ State = call.pre

\* C8 witness: redo() on the last index of a history with entries to undo.
C8_Witness ==
    /\ call.op = "redo"
    /\ call.pre.currentIndex = Len(call.pre.history) - 1
    /\ call.pre.currentIndex >= 1

\* C9: undo() and redo() leave the history as it was; an effective undo()
\* changes the index by -1 and an effective redo() by +1.
C9_UndoRedoKeepHistory ==
    /\ call.op \in {"undo", "redo"} => history = call.pre.history
    /\ (call.op = "undo" /\ AboveFirst(call)) =>
          currentIndex = call.pre.currentIndex - 1
    /\ (call.op = "redo" /\ BelowLast(call)) =>
          currentIndex = call.pre.currentIndex + 1

\* C9 witness: an effective redo() right after an effective undo().
C9_Witness ==
    /\ prevCall.op = "undo" /\ AboveFirst(prevCall)
    /\ call.op = "redo" /\ BelowLast(call)
    /\ Len(history) >= 3

\* C10: ngOnInit, edit name to "A", edit name to "AB" give [S0,S1,S2] with
\* index 2; undo() gives index 1 and form S1; an edit of name to "AX" gives
\* exactly [S0,S1,S3] with index 2; a redo() then changes nothing.
C10_Scenario ==
    /\ scenario = 3 => /\ history = <<S0, S1, S2>>
                       /\ currentIndex = 2
    /\ scenario = 4 => /\ currentIndex = 1
                       /\ myForm = <<S1>>
    /\ scenario = 5 => /\ history = <<S0, S1, S3>>
                       /\ currentIndex = 2
    /\ scenario = 6 => /\ ~call.threw
                       /\ State = call.pre
                       /\ history = <<S0, S1, S3>>
                       /\ currentIndex = 2

\* C10 witness: the whole walk-through has run.
C10_Witness == scenario = 6

\* C11 as stated: from no reachable state does a sequence of undo() and
\* redo() calls without an edit make a snapshot at an index greater than
\* index + 1 the current one (index on it, form showing it).
C11_AboveNextUnreachable ==
    \A ops \in UndoRedoRuns(Len(history)) :
        LET t == Run(State, ops).state
        IN  ~ /\ t.currentIndex > currentIndex + 1
              /\ InRange(t.history, t.currentIndex)
              /\ t.myForm = <<At(history, t.currentIndex)>>

\* C11 amended: a snapshot at an index k above the current one stays
\* reachable, k - index redo() calls in a row make it the current one and
\* fewer do not; the next save removes every entry above the old index, and
\* after it no sequence of undo() and redo() calls changes the history or
\* moves the index outside it.
C11_AboveCursorRedoableUntilSave ==
    /\ \A k \in (currentIndex + 1)..(Len(history) - 1) :
          /\ \A j \in 0..(k - currentIndex) :
                LET r == Run(State, Repeat("redo", j))
                IN  /\ ~r.threw
                    /\ r.state.history = history
                    /\ r.state.currentIndex = currentIndex + j
                    /\ j > 0 => r.state.myForm =
                                   <<At(history, currentIndex + j)>>
    /\ (call.op = "edit" /\ BelowLast(call)) =>
          /\ Len(history) = call.pre.currentIndex + 2
          /\ \A ops \in UndoRedoRuns(Len(history)) :
                LET r == Run(State, ops)
                IN  /\ ~r.threw
                    /\ r.state.history = history
                    /\ InRange(history, r.state.currentIndex)

\* C11 witness: two undo() calls in a row left a snapshot at index + 2.
C11_Witness ==
    /\ prevCall.op = "undo" /\ AboveFirst(prevCall)
    /\ call.op = "undo" /\ AboveFirst(call)
    /\ Len(history) - 1 >= currentIndex + 2

\* C12: an undo() called with index > 0 and a redo() called with index <
\* history.length - 1 each emit exactly one notification; a boundary undo()
\* or redo(), an edit, ngOnInit, canUndo() and canRedo() emit none; so the
\* notifications emitted so far are as many as the index moves made by
\* undo() and redo().
C12_NotificationsMatchMoves ==
    /\ toasts = moves
    /\ toasts = call.pre.toasts +
          (IF \/ call.op = "undo" /\ AboveFirst(call)
              \/ call.op = "redo" /\ BelowLast(call)
           THEN 1
           ELSE 0)
    /\ call.op \in {"undo", "redo"} =>
          ((toasts = call.pre.toasts + 1) <=>
              (currentIndex # call.pre.currentIndex))

\* C12 witness: an effective undo(), then an effective redo(), then an edit,
\* after which two notifications have been shown.
C12_Witness ==
    /\ prevCall.op = "redo" /\ BelowLast(prevCall)
    /\ call.op = "edit"
    /\ toasts = 2
    /\ moves = 2

\* C13: once ngOnInit has run, after every call (edit, effective or no-op
\* undo() and redo(), canUndo(), canRedo()) the form value is
\* history[currentIndex].
C13_FormShowsCurrentSnapshot ==
    myForm # << >> =>
        /\ InRange(history, currentIndex)
        /\ myForm = <<At(history, currentIndex)>>

\* C13 witness: an effective undo() that changed the form value.
C13_Witness ==
    /\ call.op = "undo"
    /\ AboveFirst(call)
    /\ myForm # call.pre.myForm

\* C14: an edit made with the index on the last entry lengthens the history
\* by exactly one, keeps every old entry at its index and stores the new
\* form value last, also when that value equals the current snapshot; after
\* any edit the length is the old index + 2.
C14_EditAppendsOne ==
    /\ (call.op = "edit" /\ ~BelowLast(call)) =>
          /\ ~call.threw
          /\ Len(history) = Len(call.pre.history) + 1
          /\ \A i \in 0..(Len(call.pre.history) - 1) :
                At(history, i) = At(call.pre.history, i)
          /\ At(history, Len(history) - 1) =
                [call.pre.myForm[1] EXCEPT ![call.field] = call.value]
    /\ call.op = "edit" => Len(history) = call.pre.currentIndex + 2

\* C14 witness: an edit on the last index that leaves the form value equal
\* to the snapshot that was current.
C14_Witness ==
    /\ call.op = "edit"
    /\ ~BelowLast(call)
    /\ myForm = call.pre.myForm
    /\ Len(history) >= 3
    /\ At(history, Len(history) - 1) = At(history, Len(history) - 2)

\* C15: right after an effective undo() canRedo() is true, right after an
\* effective redo() canUndo() is true, and the write into the form made by
\* either does not shorten the history.
C15_OppositeMoveAvailable ==
    /\ (call.op = "undo" /\ AboveFirst(call)) =>
          /\ canRedo(State)
          /\ currentIndex < Len(history) - 1
    /\ (call.op = "redo" /\ BelowLast(call)) =>
          /\ canUndo(State)
          /\ currentIndex > 0
    /\ (prevCall.op = "undo" /\ AboveFirst(prevCall) /\ call.op = "canRedo")
          => call.ret
    /\ (prevCall.op = "redo" /\ BelowLast(prevCall) /\ call.op = "canUndo")
          => call.ret
    /\ call.op \in {"undo", "redo"} => Len(history) = Len(call.pre.history)

\* C15 witness: canRedo() called right after an effective undo().
C15_Witness ==
    /\ prevCall.op = "undo"
    /\ AboveFirst(prevCall)
    /\ call.op = "canRedo"

\* C16: once ngOnInit has run, history[0] is the empty form value in every
\* reachable state.
C16_InitialSnapshotKept ==
    myForm # << >> =>
        /\ history # << >>
        /\ At(history, 0) = [name |-> "", email |-> "", country |-> ""]

\* C16 witness: an edit made at index 0 of a longer history, which
\* truncates everything but the initial snapshot.
C16_Witness ==
    /\ call.op = "edit"
    /\ call.pre.currentIndex = 0
    /\ Len(call.pre.history) >= 3
    /\ myForm # <<EmptyForm>>

\* C17: redo() called where canRedo() holds, immediately followed by undo(),
\* leaves index, history and form value as they were before the redo().
C17_RedoUndoRoundTrip ==
    (prevCall.op = "redo" /\ BelowLast(prevCall) /\ call.op = "undo") =>
        /\ ~prevCall.threw
        /\ ~call.threw
        /\ Fields(State) = Fields(prevCall.pre)

\* C17 witness: such a pair of calls, made where the two snapshots differ.
C17_Witness ==
    /\ prevCall.op = "redo"
    /\ BelowLast(prevCall)
    /\ call.op = "undo"
    /\ call.pre.myForm # myForm

\* C18: once ngOnInit has run, from index n a run of undo() calls alone
\* makes exactly n effective undos (the index goes down by one and one
\* notification is shown each time), reaches index 0 with canUndo() false
\* and the form showing the initial empty snapshot, and stays there on
\* further calls; a run of redo() calls alone likewise reaches the last
\* index, with canRedo() false, and stays there.
C18_RepeatedUndoRedoBottomOut ==
    myForm # << >> =>
        LET n == currentIndex
            m == Len(history) - 1 - currentIndex
        IN  /\ \A k \in 0..(n + 2) :
                  LET r == Run(State, Repeat("undo", k))
                      done == IF k <= n THEN k ELSE n
                  IN  /\ ~r.threw
                      /\ r.state.history = history
                      /\ r.state.currentIndex = n - done
                      /\ r.state.toasts = toasts + done
                      /\ k >= n =>
                            /\ r.state.currentIndex = 0
                            /\ ~canUndo(r.state)
                            /\ r.state.myForm =
                                  <<[name |-> "", email |-> "",
                                     country |-> ""]>>
            /\ \A k \in 0..(m + 2) :
                  LET r == Run(State, Repeat("redo", k))
                      done == IF k <= m THEN k ELSE m
                  IN  /\ ~r.threw
                      /\ r.state.history = history
                      /\ r.state.currentIndex = currentIndex + done
                      /\ r.state.toasts = toasts + done
                      /\ k >= m =>
                            /\ r.state.currentIndex = Len(history) - 1
                            /\ ~canRedo(r.state)

\* C18 witness: two effective undo() calls in a row have brought the index
\* from 2 to 0 and changed the form.
C18_Witness ==
    /\ prevCall.op = "undo"
    /\ prevCall.pre.currentIndex = 2
    /\ call.op = "undo"
    /\ currentIndex = 0
    /\ ~canUndo(State)
    /\ prevCall.pre.myForm # myForm

====
